---- MODULE Spec2Model ----
(***************************************************************************)
(* Model of the chess move-exchange protocol of puhl-gui:                  *)
(*   src/src/protocol.rs  the wire codec (serialize / parse)               *)
(*   src/network.rs       the frame transport (read_message/send_message)  *)
(*   src/src/main.rs      the session loop that uses both                   *)
(*                                                                         *)
(* A Rust String is modelled as the sequence of its UTF-8 bytes.  A byte   *)
(* of an ASCII character is the one-character string of that character;    *)
(* the two bytes of the non-ASCII character U+00E9 are the tokens "xC3"    *)
(* and "xA9".  str::len() is therefore Len.                                *)
(***************************************************************************)
EXTENDS Integers, Sequences, FiniteSets, TLC

VARIABLES
    msg,      \* the Message handed to serialize, or NoMessage
    frame,    \* the Result<String, SerializeError> serialize returned, or NotRun
    wire,     \* the text handed to parse, or NoText
    parsed,   \* the Result<Message, ParseError> parse returned, or NotRun
    pc,       \* "encode": serialize is next; "decode": parse is next; "done"
    gui,        \* of each peer: MyGame.board, the GUIBoard
    running,    \* of each peer: the process has not panicked
    sent,       \* of each peer: what it has written to its stream, in order
    arrived,    \* of each peer: the bytes in its socket, not read yet
    taken,      \* of each peer: the bytes its read_exact calls have taken
    last,       \* of each peer: what its last read_message returned, or NotRun
    unanswered  \* of each peer: the move frames written since it last applied
                \* a move of the opponent

codec_vars == <<msg, frame, wire, parsed, pc>>
net_vars == <<gui, running, sent, arrived, taken, last, unanswered>>
vars == <<msg, frame, wire, parsed, pc, gui, running, sent, arrived, taken, last, unanswered>>

-----------------------------------------------------------------------------
(* Bounds of the model *)

\* quit reasons are drawn with 0..MaxReasonLen characters
MaxReasonLen == 119
\* raw decoder inputs carry 0..MaxFields fields after the tag
MaxFields == 5
\* raw decoder inputs are stretched to at most 128 + MaxOverrun bytes
MaxOverrun == 2
\* pattern boards use the piece rotations 0..MaxOffset
MaxOffset == 1

-----------------------------------------------------------------------------
(* Program constants *)

BOARD_LEN == 8
BOARD_SIZE == 64
FRAME_LEN == 128

-----------------------------------------------------------------------------
(* Rust values: Option, Result, a panic *)

None == [some |-> FALSE]
Some(x) == [some |-> TRUE, val |-> x]

Ok(v) == [tag |-> "Ok", val |-> v]
Err(e) == [tag |-> "Err", err |-> e]
Panic(why) == [tag |-> "Panic", why |-> why]
IsOk(r) == r.tag = "Ok"
IsErr(r, e) == r.tag = "Err" /\ r.err = e
IsPanic(r) == r.tag = "Panic"

NotRun == [tag |-> "NotRun"]
NoMessage == [type |-> "NoMessage"]
NoText == <<"no text">>

-----------------------------------------------------------------------------
(* Characters and strings *)

DigitChars == <<"0", "1", "2", "3", "4", "5", "6", "7", "8", "9">>
LowerChars == <<"a", "b", "c", "d", "e", "f", "g", "h", "i", "j", "k", "l", "m",
                "n", "o", "p", "q", "r", "s", "t", "u", "v", "w", "x", "y", "z">>
UpperChars == <<"A", "B", "C", "D", "E", "F", "G", "H", "I", "J", "K", "L", "M",
                "N", "O", "P", "Q", "R", "S", "T", "U", "V", "W", "X", "Y", "Z">>

Range(s) == {s[i] : i \in 1..Len(s)}
IndexIn(s, c) == CHOOSE i \in 1..Len(s) : s[i] = c

\* char::from_digit(num, radix): None when num is no digit of the radix
from_digit(num, radix) ==
    IF num >= radix THEN None
    ELSE IF num < 10 THEN Some(DigitChars[num + 1])
    ELSE Some(LowerChars[num - 10 + 1])

\* char::to_digit(10)
to_digit(c) ==
    IF c \in Range(DigitChars) THEN Some(IndexIn(DigitChars, c) - 1) ELSE None

to_ascii_uppercase(c) ==
    IF c \in Range(LowerChars) THEN UpperChars[IndexIn(LowerChars, c)] ELSE c

to_ascii_lowercase(c) ==
    IF c \in Range(UpperChars) THEN LowerChars[IndexIn(UpperChars, c)] ELSE c

\* char::is_uppercase, on the characters the model uses
is_uppercase(c) == c \in Range(UpperChars)

\* "0".repeat(n), and the same for any one-byte or two-byte character
repeat(unit, n) == [i \in 1..(n * Len(unit)) |-> unit[((i - 1) % Len(unit)) + 1]]

RECURSIVE join(_, _)
\* [..].join(sep)
join(parts, sep) ==
    IF Len(parts) = 0 THEN <<>>
    ELSE IF Len(parts) = 1 THEN parts[1]
    ELSE parts[1] \o sep \o join(Tail(parts), sep)

RECURSIVE split(_, _)
\* str::split(sep), collected: always at least one item
split(s, sep) ==
    LET at == {i \in 1..Len(s) : s[i] = sep}
        first == CHOOSE i \in at : \A j \in at : i <= j
    IN  IF at = {} THEN <<s>>
        ELSE <<SubSeq(s, 1, first - 1)>> \o split(SubSeq(s, first + 1, Len(s)), sep)

reverse(s) == [i \in 1..Len(s) |-> s[Len(s) + 1 - i]]

S_ChessMOVE == <<"C", "h", "e", "s", "s", "M", "O", "V", "E">>
S_ChessQUIT == <<"C", "h", "e", "s", "s", "Q", "U", "I", "T">>

-----------------------------------------------------------------------------
(* The rules engine's types, as the codec uses them *)

Colors == {"White", "Black"}
PieceKinds == {"Pawn", "Knight", "Bishop", "Rook", "Queen", "King"}
Pieces == [color : Colors, kind : PieceKinds]
GameStates == {"Ongoing", "WinWhite", "Draw", "WinBlack"}

\* Position::new(column, row): None outside the board
Position_new(column, row) ==
    IF column \in 0..(BOARD_LEN - 1) /\ row \in 0..(BOARD_LEN - 1)
    THEN Some([column |-> column, row |-> row])
    ELSE None

Positions == {[column |-> c, row |-> r] : c \in 0..(BOARD_LEN - 1), r \in 0..(BOARD_LEN - 1)}

Empty == [occupied |-> FALSE]
Occupied(piece) == [occupied |-> TRUE, piece |-> piece]

\* A Board is the sequence of its 64 slots; the slot of a position:
SlotIndex(pos) == pos.row * BOARD_LEN + pos.column + 1

\* Board::new_empty()
new_empty == [i \in 1..BOARD_SIZE |-> Empty]

\* Board::at_position(pos)
at_position(board, pos) == board[SlotIndex(pos)]

\* *board.at_position_mut(pos) = slot
set_position(board, pos, slot) == [board EXCEPT ![SlotIndex(pos)] = slot]

\* Option::unwrap(): the callers below only unwrap what is Some
unwrap(o) == o.val

-----------------------------------------------------------------------------
(* protocol.rs: serialize *)

\* the mutant of fen_encode_pos: the file letter is left in lower case
fen_encode_pos_lower(pos) ==
    LET file == unwrap(from_digit(pos.column + 10, 18))
        rank == unwrap(from_digit(pos.row + 1, 10))
    IN  [rank |-> rank, file |-> file]

\* the (rank, file) pair of characters of a position
fen_encode_pos(pos) ==
    LET file == unwrap(from_digit(pos.column + 10, 18))
        rank == unwrap(from_digit(pos.row + 1, 10))
    IN  [rank |-> to_ascii_uppercase(rank), file |-> to_ascii_uppercase(file)]

\* the mutant of serialize_mv: a King is written as 'K' instead of refused
serialize_mv_king(message) ==
    LET src == fen_encode_pos(message.mv[1])
        dst == fen_encode_pos(message.mv[2])
        p == message.prom_piece
    IN  IF p = None THEN Ok(<<src.file, src.rank, dst.file, dst.rank, "0">>)
        ELSE IF p = Some("Knight") THEN Ok(<<src.file, src.rank, dst.file, dst.rank, "N">>)
        ELSE IF p = Some("Bishop") THEN Ok(<<src.file, src.rank, dst.file, dst.rank, "B">>)
        ELSE IF p = Some("Rook") THEN Ok(<<src.file, src.rank, dst.file, dst.rank, "R">>)
        ELSE IF p = Some("Queen") THEN Ok(<<src.file, src.rank, dst.file, dst.rank, "Q">>)
        ELSE IF p = Some("King") THEN Ok(<<src.file, src.rank, dst.file, dst.rank, "K">>)
        ELSE Err("InvalidPromPiece")

serialize_mv(message) ==
    LET src == fen_encode_pos(message.mv[1])
        dst == fen_encode_pos(message.mv[2])
        p == message.prom_piece
        prom == IF p = Some("Knight") THEN Some("N")
                ELSE IF p = Some("Bishop") THEN Some("B")
                ELSE IF p = Some("Rook") THEN Some("R")
                ELSE IF p = Some("Queen") THEN Some("Q")
                ELSE IF p = None THEN Some("0")
                ELSE None
    IN  IF prom = None THEN Err("InvalidPromPiece")
        ELSE Ok(<<src.file, src.rank, dst.file, dst.rank, prom.val>>)

serialize_game_state(message) ==
    CASE message.game_state = "Ongoing"  -> <<"0", "-", "0">>
      [] message.game_state = "WinWhite" -> <<"1", "-", "0">>
      [] message.game_state = "Draw"     -> <<"1", "-", "1">>
      [] message.game_state = "WinBlack" -> <<"0", "-", "1">>

serialize_piece(piece) ==
    LET serialized_piece_kind ==
            CASE piece.kind = "Pawn"   -> "P"
              [] piece.kind = "Knight" -> "N"
              [] piece.kind = "Bishop" -> "B"
              [] piece.kind = "Rook"   -> "R"
              [] piece.kind = "Queen"  -> "Q"
              [] piece.kind = "King"   -> "K"
    IN  IF piece.color = "White" THEN serialized_piece_kind
        ELSE to_ascii_lowercase(serialized_piece_kind)

\* one turn of the loop over the files of a rank: the state is the pair
\* (fen_rank, empty_count)
rank_step(slot, st) ==
    IF slot.occupied
    THEN LET flushed == IF st.empty_count > 0
                        THEN Append(st.fen_rank, unwrap(from_digit(st.empty_count, 10)))
                        ELSE st.fen_rank
         IN  [fen_rank |-> Append(flushed, serialize_piece(slot.piece)), empty_count |-> 0]
    ELSE [fen_rank |-> st.fen_rank, empty_count |-> st.empty_count + 1]

\* the mutant of rank_end: the run of empty squares that ends a rank is dropped
rank_end_noflush(st) == st.fen_rank

\* after the loop: the pending run of empty squares is written
rank_end(st) ==
    IF st.empty_count > 0
    THEN Append(st.fen_rank, unwrap(from_digit(st.empty_count, 10)))
    ELSE st.fen_rank

RECURSIVE rank_loop(_, _, _, _)
rank_loop(board, rank, file, st) ==
    IF file = BOARD_LEN THEN st
    ELSE rank_loop(board, rank, file + 1,
                   rank_step(at_position(board, unwrap(Position_new(file, rank))), st))

\* the closure mapped over 0..BOARD_LEN: the text of one rank
serialize_rank(board, rank) ==
    rank_end(rank_loop(board, rank, 0, [fen_rank |-> <<>>, empty_count |-> 0]))

serialize_board(board) ==
    join([k \in 1..BOARD_LEN |-> serialize_rank(board, k - 1)], <<"/">>)

\* the mutant of pad: the frame is filled with blanks
pad_blank(serialized) ==
    IF Len(serialized) > FRAME_LEN THEN Panic("attempt to subtract with overflow")
    ELSE Ok(serialized \o repeat(<<" ">>, FRAME_LEN - Len(serialized)))

\* serialized += &"0".repeat(128 - serialized.len()): the subtraction is on usize,
\* so a longer text aborts (overflow check, or the capacity of repeat)
pad(serialized) ==
    IF Len(serialized) > FRAME_LEN THEN Panic("attempt to subtract with overflow")
    ELSE Ok(serialized \o repeat(<<"0">>, FRAME_LEN - Len(serialized)))

\* the text of a Move message before the padding
move_text(serialized_mv, message) ==
    join(<<S_ChessMOVE, serialized_mv, serialize_game_state(message),
           serialize_board(message.board)>>, <<":">>) \o <<":">>

serialize_move(message) ==
    LET serialized_mv == serialize_mv(message)
    IN  IF ~IsOk(serialized_mv) THEN serialized_mv
        ELSE pad(move_text(serialized_mv.val, message))

\* the mutant of serialize_quit: a text of exactly 128 bytes is refused too
serialize_quit_ge(str) ==
    LET serialized == S_ChessQUIT \o <<":">> \o str \o <<":">>
    IN  IF Len(serialized) >= FRAME_LEN THEN Err("TooLongQuitMsg")
        ELSE pad(serialized)

serialize_quit(str) ==
    LET serialized == S_ChessQUIT \o <<":">> \o str \o <<":">>
    IN  IF Len(serialized) > FRAME_LEN THEN Err("TooLongQuitMsg")
        ELSE pad(serialized)

serialize(message) ==
    IF message.type = "Move" THEN serialize_move(message)
    ELSE serialize_quit(message.str)

-----------------------------------------------------------------------------
(* protocol.rs: parse *)

\* the continuation bytes of the model: the second byte of U+00E9, and the
\* second and third byte of U+FFFD ("xEF", "xBF", "xBD")
ContinuationBytes == {"xA9", "xBF", "xBD"}

\* str::is_char_boundary(i), i counted from 0
is_char_boundary(s, i) ==
    i = 0 \/ i = Len(s) \/ (i < Len(s) /\ s[i + 1] \notin ContinuationBytes)

\* &s[a..b]: aborts when a or b is not on a character boundary
slice(s, a, b) ==
    IF is_char_boundary(s, a) /\ is_char_boundary(s, b)
    THEN Ok(SubSeq(s, a + 1, b))
    ELSE Panic("byte index is not a char boundary")

is_not_continuation(b) == b \notin ContinuationBytes

\* str::chars(): the bytes of a non-ASCII character are one char
chars(s) ==
    LET leads == SelectSeq(s, is_not_continuation)
    IN  [i \in 1..Len(leads) |-> CASE leads[i] = "xC3" -> "U+00E9"
                                    [] leads[i] = "xEF" -> "U+FFFD"
                                    [] OTHER -> leads[i]]

\* Position::parse of the rules engine: a file letter A..H in either case, then
\* a rank digit 1..8
Position_parse(s) ==
    IF Len(s) = 2
       /\ to_ascii_uppercase(s[1]) \in {"A", "B", "C", "D", "E", "F", "G", "H"}
       /\ s[2] \in {"1", "2", "3", "4", "5", "6", "7", "8"}
    THEN Position_new(IndexIn(UpperChars, to_ascii_uppercase(s[1])) - 1,
                      to_digit(s[2]).val - 1)
    ELSE None

(* A usize is kept as an integer v: v >= 0 stands for v, and v < 0 stands for
   the wrapped value 2^64 + v.  A frame has at most 128 bytes and one character
   takes at most 9 off the counter, so a wrapped counter never comes back to
   the range 0..2^63 and the representation is exact. *)
usize_underflows(a, b) == a >= 0 /\ b > a
usize_ge(a, b) == a < 0 \/ a >= b

Return(result) == [ret |-> TRUE, result |-> result]
Continue(board, index) == [ret |-> FALSE, board |-> board, index |-> index]

\* the mutant of fen_piece_kind: a letter that names no piece is taken for a
\* pawn
fen_piece_kind_lenient(c) ==
    CASE c = "P" -> Some("Pawn")
      [] c = "N" -> Some("Knight")
      [] c = "B" -> Some("Bishop")
      [] c = "R" -> Some("Rook")
      [] c = "Q" -> Some("Queen")
      [] c = "K" -> Some("King")
      [] OTHER -> Some("Pawn")

fen_piece_kind(c) ==
    CASE c = "P" -> Some("Pawn")
      [] c = "N" -> Some("Knight")
      [] c = "B" -> Some("Bishop")
      [] c = "R" -> Some("Rook")
      [] c = "Q" -> Some("Queen")
      [] c = "K" -> Some("King")
      [] OTHER -> None

\* the square of a counter value: (file, rank)
fen_square(index) ==
    [rank |-> index \div BOARD_LEN, file |-> BOARD_LEN - (index % BOARD_LEN) - 1]

\* one turn of the inner loop of parse_fen; checks: the build checks overflow
fen_char(chr, st, checks) ==
    LET skips == to_digit(chr)
    IN  IF skips.some
        THEN IF usize_underflows(st.index, skips.val) /\ checks
             THEN Return(Panic("attempt to subtract with overflow"))
             ELSE Continue(st.board, st.index - skips.val)
        ELSE IF usize_underflows(st.index, 1) /\ checks
        THEN Return(Panic("attempt to subtract with overflow"))
        ELSE LET index == st.index - 1
                 piece_kind == fen_piece_kind(to_ascii_uppercase(chr))
                 piece_color == IF is_uppercase(chr) THEN "White" ELSE "Black"
                 sq == fen_square(index)
                 position == Position_new(sq.file, sq.rank)
             IN  IF usize_ge(index, BOARD_SIZE) THEN Return(Err("InvalidFENLength"))
                 ELSE IF piece_kind = None THEN Return(Err("InvalidFENChar"))
                 ELSE IF ~(sq.rank < BOARD_LEN /\ sq.file < BOARD_LEN)
                 THEN Return(Panic("assertion failed"))
                 ELSE IF position = None THEN Return(Panic("unreachable"))
                 ELSE Continue(set_position(st.board, position.val,
                                   Occupied([color |-> piece_color,
                                             kind |-> piece_kind.val])),
                               index)

RECURSIVE fen_chars_loop(_, _, _, _)
\* for chr in rank.chars().rev()
fen_chars_loop(cs, i, st, checks) ==
    IF st.ret \/ i > Len(cs) THEN st
    ELSE fen_chars_loop(cs, i + 1, fen_char(cs[i], st, checks), checks)

RECURSIVE fen_ranks_loop(_, _, _, _)
\* for rank in fen.split("/")
fen_ranks_loop(ranks, k, st, checks) ==
    IF st.ret \/ k > Len(ranks) THEN st
    ELSE fen_ranks_loop(ranks, k + 1,
                        fen_chars_loop(reverse(chars(ranks[k])), 1, st, checks),
                        checks)

parse_fen(fen, checks) ==
    LET st == fen_ranks_loop(split(fen, "/"), 1, Continue(new_empty, BOARD_SIZE), checks)
    IN  IF st.ret THEN st.result
        ELSE IF st.index # 0 THEN Err("InvalidFENLength")
        ELSE Ok(st.board)

parse_prom_piece(s) ==
    CASE s = <<"0">> -> Ok(None)
      [] s \in {<<"N">>, <<"n">>} -> Ok(Some("Knight"))
      [] s \in {<<"B">>, <<"b">>} -> Ok(Some("Bishop"))
      [] s \in {<<"R">>, <<"r">>} -> Ok(Some("Rook"))
      [] s \in {<<"Q">>, <<"q">>} -> Ok(Some("Queen"))
      [] OTHER -> Err("InvalidMoveFormat")

\* the mutant of parse_game_state: the codes of the two wins are exchanged
parse_game_state_swapped(s) ==
    CASE s = <<"0", "-", "0">> -> Ok("Ongoing")
      [] s = <<"1", "-", "0">> -> Ok("WinBlack")
      [] s = <<"0", "-", "1">> -> Ok("WinWhite")
      [] s = <<"1", "-", "1">> -> Ok("Draw")
      [] OTHER -> Err("InvalidGameState")

parse_game_state(s) ==
    CASE s = <<"0", "-", "0">> -> Ok("Ongoing")
      [] s = <<"1", "-", "0">> -> Ok("WinWhite")
      [] s = <<"0", "-", "1">> -> Ok("WinBlack")
      [] s = <<"1", "-", "1">> -> Ok("Draw")
      [] OTHER -> Err("InvalidGameState")

\* the body of the arm [mv, game_state, board, _padding]
parse_move_fields(mv, game_state, board, checks) ==
    IF Len(mv) # 5 THEN Err("InvalidMoveFormat")
    ELSE
    LET prom_str == slice(mv, 4, 5)
        prom_piece == IF IsOk(prom_str) THEN parse_prom_piece(prom_str.val) ELSE prom_str
        mv_src == slice(mv, 0, 2)
        mv_dst == slice(mv, 2, 4)
        src == IF IsOk(mv_src) THEN Position_parse(mv_src.val) ELSE None
        dst == IF IsOk(mv_dst) THEN Position_parse(mv_dst.val) ELSE None
        state == parse_game_state(game_state)
        fen == parse_fen(board, checks)
    IN  IF ~IsOk(prom_piece) THEN prom_piece
        ELSE IF ~IsOk(mv_src) THEN mv_src
        ELSE IF ~IsOk(mv_dst) THEN mv_dst
        ELSE IF src = None THEN Err("InvalidMoveFormat")
        ELSE IF dst = None THEN Err("InvalidMoveFormat")
        ELSE IF ~IsOk(state) THEN state
        ELSE IF ~IsOk(fen) THEN fen
        ELSE Ok([type |-> "Move", board |-> fen.val, mv |-> <<src.val, dst.val>>,
                 prom_piece |-> prom_piece.val, game_state |-> state.val])

parse_message_move(message, checks) ==
    IF Len(message) = 4
    THEN parse_move_fields(message[1], message[2], message[3], checks)
    ELSE Err("WrongAmountOfFields")

\* the mutant of parse_message_quit for the round trip: the padding is taken
\* for the reason
parse_message_quit_padding(message) ==
    IF Len(message) = 2 THEN Ok([type |-> "Quit", str |-> message[2]])
    ELSE Err("WrongAmountOfFields")

\* the mutant of parse_message_quit for the field count: fields after the
\* reason are all taken for padding
parse_message_quit_lax(message) ==
    IF Len(message) >= 1 THEN Ok([type |-> "Quit", str |-> message[1]])
    ELSE Err("WrongAmountOfFields")

parse_message_quit(message) ==
    IF Len(message) = 2 THEN Ok([type |-> "Quit", str |-> message[1]])
    ELSE Err("WrongAmountOfFields")

\* the mutant of too_long: the limit is off by one
too_long_off_by_one(message) == Len(message) > FRAME_LEN + 1

\* message.len() > 128
too_long(message) == Len(message) > FRAME_LEN

\* the mutant of is_tag: the tag is compared without regard to case
is_tag_ignore_case(msg_id, tag) ==
    /\ Len(msg_id) = Len(tag)
    /\ \A i \in 1..Len(tag) : to_ascii_uppercase(msg_id[i]) = to_ascii_uppercase(tag[i])

\* an arm of match msg_id: the string pattern matches the whole text exactly
is_tag(msg_id, tag) == msg_id = tag

parse(message, checks) ==
    IF too_long(message) THEN Err("TooLong")
    ELSE
    LET parts == split(message, ":")
    IN  IF Len(parts) = 0 THEN Err("UnknownMessageType")
        ELSE IF is_tag(Head(parts), S_ChessMOVE) THEN parse_message_move(Tail(parts), checks)
        ELSE IF is_tag(Head(parts), S_ChessQUIT) THEN parse_message_quit(Tail(parts))
        ELSE Err("UnknownMessageType")

-----------------------------------------------------------------------------
(* The messages and the texts the codec is run on *)

PieceCycle ==
    <<[color |-> "White", kind |-> "Pawn"],   [color |-> "Black", kind |-> "Knight"],
      [color |-> "White", kind |-> "Bishop"], [color |-> "Black", kind |-> "Rook"],
      [color |-> "White", kind |-> "Queen"],  [color |-> "Black", kind |-> "King"],
      [color |-> "Black", kind |-> "Pawn"],   [color |-> "White", kind |-> "Knight"],
      [color |-> "Black", kind |-> "Bishop"], [color |-> "White", kind |-> "Rook"],
      [color |-> "Black", kind |-> "Queen"],  [color |-> "White", kind |-> "King"]>>

\* the boards with one piece: every piece on every square
SingleBoards ==
    {set_position(new_empty, p, Occupied(piece)) : p \in Positions, piece \in Pieces}

\* the files of mask are occupied on the ranks of ranks, the pieces taken in
\* turn from PieceCycle
PatternBoard(mask, ranks, offset) ==
    [i \in 1..BOARD_SIZE |->
        LET row == (i - 1) \div BOARD_LEN
            column == (i - 1) % BOARD_LEN
        IN  IF row \in ranks /\ column \in mask
            THEN Occupied(PieceCycle[((column + 3 * row + offset) % 12) + 1])
            ELSE Empty]

\* every occupancy of a rank, on each single rank and on all ranks at once;
\* the empty board and the board with 64 pieces are among them
PatternBoards ==
    {PatternBoard(mask, ranks, offset) :
        mask \in SUBSET (0..(BOARD_LEN - 1)),
        ranks \in {{r} : r \in 0..(BOARD_LEN - 1)} \cup {0..(BOARD_LEN - 1)},
        offset \in 0..MaxOffset}

Proms == {None} \cup {Some(k) : k \in PieceKinds}

MoveMsg(board, src, dst, prom_piece, game_state) ==
    [type |-> "Move", board |-> board, mv |-> <<src, dst>>,
     prom_piece |-> prom_piece, game_state |-> game_state]

Pos(column, row) == [column |-> column, row |-> row]

\* the two destinations tried from a source square
Destinations(p) ==
    {Pos(p.row, p.column), Pos(BOARD_LEN - 1 - p.column, BOARD_LEN - 1 - p.row)}

\* the one piece of a board of SingleBoards
OnlyPiece(board) == board[CHOOSE i \in 1..BOARD_SIZE : board[i].occupied].piece

\* a Move message for a board of SingleBoards: it promotes to the kind of the
\* one piece, and the side of that piece wins
SingleBoardMsg(b) ==
    MoveMsg(b, Pos(0, 6), Pos(0, 7), Some(OnlyPiece(b).kind),
            IF OnlyPiece(b).color = "White" THEN "WinWhite" ELSE "WinBlack")

\* a Move message for a board of PatternBoards
PatternBoardMsg(b) == MoveMsg(b, Pos(4, 1), Pos(4, 3), None, "Ongoing")

ReasonUnits == {<<"X">>, <<"0">>, <<"xC3", "xA9">>}

\* n characters, the k-th of them a ':' when k > 0
Reason(unit, n, k) ==
    IF k = 0 THEN repeat(unit, n)
    ELSE repeat(unit, k - 1) \o <<":">> \o repeat(unit, n - k)

QuitMsg(str) == [type |-> "Quit", str |-> str]

\* where the ':' of a reason of n characters is put: nowhere, first or last
ColonPlaces(n) == {0, 1, n} \cap 0..n

S_EmptyBoard == <<"8", "/", "8", "/", "8", "/", "8", "/", "8", "/", "8", "/", "8", "/", "8">>
S_SevenRanks == <<"8", "/", "8", "/", "8", "/", "8", "/", "8", "/", "8", "/", "8">>

Tags == {S_ChessMOVE, S_ChessQUIT, <<"N", "o", "t", "C", "h", "e", "s", "s">>, <<"c", "h", "e", "s", "s", "m", "o", "v", "e">>, << >>}

\* what the i-th field after the tag is drawn from
FieldPool(i) ==
    CASE i = 1 -> {<<"E", "2", "E", "4", "0">>, <<"a", "7", "a", "8", "q">>, <<"a", "2", "b">>, << >>}
      [] i = 2 -> {<<"0", "-", "0">>, <<"w", "e", "i", "r", "d">>}
      [] i = 3 -> {S_EmptyBoard, S_SevenRanks, <<"0">>}
      [] OTHER -> {<<"0">>, <<"x">>}

RECURSIVE FieldSeqs(_)
\* the lists of n fields, the i-th from FieldPool(i)
FieldSeqs(n) ==
    IF n = 0 THEN {<< >>}
    ELSE {Append(fs, f) : fs \in FieldSeqs(n - 1), f \in FieldPool(n)}

\* a text as it is, filled with '0' to a whole frame, and filled beyond it
Stretched(text) ==
    {text}
    \cup {text \o repeat(<<"0">>, len - Len(text)) :
            len \in {l \in FRAME_LEN..(FRAME_LEN + MaxOverrun) : l > Len(text)}}

\* the text of a tag and the fields after it
RawText(tag, fs) == join(<<tag>> \o fs, <<":">>)

-----------------------------------------------------------------------------
(* main.rs, network.rs: a session of two connected peers.  Each peer runs the
   event loop of MyGame: update() once per frame and mouse_button_down_event
   on a click.  The rules engine is not part of the repository: a position is
   kept as the moves played on it since the standard position, and the result
   the engine gives a move is left open (the same move on the same position
   gives the same result on both sides). *)

\* a peer writes at most MaxFrames move frames
MaxFrames == 4
\* the network may hand over the first PartLen bytes of what is under way
PartLen == 50

Peers == {"server", "client"}
Opponent(p) == IF p = "server" THEN "client" ELSE "server"

\* parse_cmd: the server plays White, the client plays Black
playing_as(p) == IF p = "server" THEN "White" ELSE "Black"

\* Game::new(board, turn): board is the moves played since the standard position
Game_new(position, turn) == [position |-> position, turn |-> turn]
Game_new_standard == Game_new(<<>>, "White")

\* GUIBoard::new
GUIBoard_new ==
    [game |-> Game_new_standard, winner |-> None,
     selected_position |-> None, ui_state |-> "Normal"]

\* GUIBoard::reset
reset(g) == GUIBoard_new

Flip(color) == IF color = "White" THEN "Black" ELSE "White"

\* what Game::perform_move may return
MoveResults == {"Ongoing", "Finished", "Illegal"}

\* the rules of chess: from the standard position no half-move before the
\* 4th gives mate, and no pawn reaches its last rank before the 9th
MatePly == 4
PromotionPly == 9

\* what the engine may give a valid move on the position it is played on
ValidMoveResults(position) ==
    {"Ongoing"} \cup (IF Len(position) + 1 >= MatePly THEN {"Finished"} ELSE {})

\* GUIBoard::perform_move, and the same lines of update: the game after a
\* move with the given result.  A finished game is put back with the turn of
\* the placeholder, which is the turn before the move.
perform_move(g, mv, result) ==
    CASE result = "Ongoing" ->
            [g EXCEPT !.game = Game_new(Append(g.game.position, mv), Flip(g.game.turn))]
      [] result = "Finished" ->
            [g EXCEPT !.winner = Some(g.game.turn),
                      !.game = Game_new(Append(g.game.position, mv), g.game.turn)]
      [] OTHER -> g

\* the move a peer plays: the model has one for each colour
MoveOf(p) ==
    IF playing_as(p) = "White" THEN <<Pos(4, 1), Pos(4, 3)>> ELSE <<Pos(4, 6), Pos(4, 4)>>

\* the Message::Move of mouse_button_down_event.  The board of the message is
\* never read by update; the empty board stands for it.
MoveMessage(p) == MoveMsg(new_empty, MoveOf(p)[1], MoveOf(p)[2], None, "Ongoing")

\* what a peer hands to send_message: the message, and for a move the game
\* it was played on and the result the engine gave
Written(message, before, result) ==
    [message |-> message, before |-> before, result |-> result]

RECURSIVE Bytes(_)
\* the bytes of a TCP stream: the frames written, one after the other
Bytes(entries) ==
    IF Len(entries) = 0 THEN <<>>
    ELSE Head(entries).bytes \o Bytes(Tail(entries))

NetError_IoError(kind) == [tag |-> "IoError", kind |-> kind]

\* String::from_utf8_lossy: valid UTF-8 is kept; a continuation byte without
\* its lead byte, and a lead byte without its continuation byte, become the
\* three bytes of U+FFFD
from_utf8_lossy(bytes) ==
    LET bad == {i \in 1..Len(bytes) :
                    \/ bytes[i] = "xA9" /\ (i = 1 \/ bytes[i - 1] # "xC3")
                    \/ bytes[i] = "xC3" /\ (i = Len(bytes) \/ bytes[i + 1] # "xA9")}
        \* where byte i of the input starts in the output, counted from 0
        start(i) == (i - 1) + 2 * Cardinality({b \in bad : b < i})
        at(j) == CHOOSE i \in 1..Len(bytes) :
                    start(i) < j /\ j <= start(i) + (IF i \in bad THEN 3 ELSE 1)
    IN  IF bad = {} THEN bytes
        ELSE [j \in 1..(Len(bytes) + 2 * Cardinality(bad)) |->
                IF at(j) \in bad THEN <<"xEF", "xBF", "xBD">>[j - start(at(j))]
                ELSE bytes[at(j)]]

\* the session starts: both peers show the standard position, nothing has
\* been written or read
NetInit ==
    /\ gui = [p \in Peers |-> GUIBoard_new]
    /\ running = [p \in Peers |-> TRUE]
    /\ sent = [p \in Peers |-> <<>>]
    /\ arrived = [p \in Peers |-> 0]
    /\ taken = [p \in Peers |-> 0]
    /\ last = [p \in Peers |-> NotRun]
    /\ unanswered = [p \in Peers |-> 0]

\* the bytes written to peer p that have not reached its socket yet
Pending(p) == Len(Bytes(sent[Opponent(p)])) - taken[p] - arrived[p]

\* stream.read_exact(&mut [0; 128]) on the non-blocking stream of peer p: with
\* 128 bytes in the socket it takes them; with fewer it takes what is there
\* into its buffer and fails, WouldBlock while more may come and
\* UnexpectedEof at the end of the stream of a peer that is gone
read_exact(p) ==
    IF arrived[p] >= FRAME_LEN
    THEN [buf |-> Ok(SubSeq(Bytes(sent[Opponent(p)]), taken[p] + 1, taken[p] + FRAME_LEN)),
          took |-> FRAME_LEN]
    ELSE [buf |-> NetError_IoError(IF Pending(p) = 0 /\ ~running[Opponent(p)]
                                   THEN "UnexpectedEof" ELSE "WouldBlock"),
          took |-> arrived[p]]

\* read_message: Ok(message), Err(a ParseError), or the IoError of read_exact
read_message(buf, checks) ==
    IF IsOk(buf) THEN parse(from_utf8_lossy(buf.val), checks) ELSE buf

\* send_message: serialize, then write_all of the bytes of the frame
send_message(written, entry) ==
    LET message == serialize(entry.message)
    IN  IF IsOk(message)
        THEN Append(written, [message |-> entry.message, before |-> entry.before,
                              result |-> entry.result, bytes |-> message.val])
        ELSE written

\* the network hands bytes under way to the socket of peer p: the first
\* PartLen of them, or all
Deliver(p) ==
    /\ \E n \in {PartLen, Pending(p)} :
            /\ 1 <= n /\ n <= Pending(p)
            /\ arrived' = [arrived EXCEPT ![p] = @ + n]
    /\ UNCHANGED <<gui, running, sent, taken, last, unanswered>>
    /\ UNCHANGED codec_vars

\* MyGame::update of peer p, past the test of the turn.  answer is what the
\* engine gives the move on a position it was not played on.
update(p) ==
    /\ running[p]
    /\ gui[p].game.turn # playing_as(p)
    /\ \E checks \in BOOLEAN, answer \in MoveResults :
        LET rd == read_exact(p)
            message == read_message(rd.buf, checks)
            aligned == taken[p] % FRAME_LEN = 0
            entry == sent[Opponent(p)][(taken[p] \div FRAME_LEN) + 1]
            result == IF aligned /\ entry.message = message.val
                         /\ entry.before = gui[p].game
                      THEN entry.result ELSE answer
            is_move == IsOk(message) /\ message.val.type = "Move"
            applied == is_move /\ result # "Illegal"
            mv == IF is_move THEN message.val.mv ELSE <<>>
        IN  /\ last' = [last EXCEPT ![p] = message]
            /\ taken' = [taken EXCEPT ![p] = @ + rd.took]
            /\ arrived' = [arrived EXCEPT ![p] = @ - rd.took]
            /\ gui' = IF applied THEN [gui EXCEPT ![p] = perform_move(@, mv, result)]
                      ELSE gui
            /\ unanswered' = IF applied THEN [unanswered EXCEPT ![p] = 0] ELSE unanswered
            /\ sent' = IF is_move /\ ~applied
                       THEN [sent EXCEPT ![p] = send_message(@,
                                Written(QuitMsg(<<"D", "e", "s", "y", "n", "c">>), gui[p].game, "Quit"))]
                       ELSE sent
            \* IoError is passed over; every other arm but a move applied panics
            /\ running' = IF applied \/ message.tag = "IoError" THEN running
                          ELSE [running EXCEPT ![p] = FALSE]
    /\ UNCHANGED codec_vars

ClickTargets == {"piece", "move", "promotion", "choice", "elsewhere"}

\* MyGame::mouse_button_down_event of peer p for a left click, past the test
\* of the turn.  target is what lies under the cursor: a piece of the side to
\* move, a valid move of the selected piece, such a move of a pawn to its last
\* rank, a choice of the promotion overlay, or none of these.  result is what
\* the engine gives a valid move.
mouse_button_down_event(p) ==
    /\ running[p]
    /\ gui[p].game.turn = playing_as(p)
    /\ \E target \in ClickTargets, result \in ValidMoveResults(gui[p].game.position) :
        LET g == gui[p]
            moves == g.winner = None /\ g.ui_state = "Normal"
                     /\ g.selected_position # None /\ target = "move"
            moved == [perform_move(g, MoveOf(p), result) EXCEPT !.selected_position = None]
        IN  /\ moves => Len(sent[p]) < MaxFrames
            /\ target = "promotion" => Len(g.game.position) + 1 >= PromotionPly
            /\ gui' = [gui EXCEPT ![p] =
                    IF g.winner # None THEN reset(g)
                    ELSE IF g.ui_state = "Promotion" THEN g
                    ELSE IF g.selected_position # None
                    THEN IF target = "move" THEN moved
                         ELSE IF target = "promotion"
                         THEN [g EXCEPT !.ui_state = "Promotion", !.selected_position = None]
                         ELSE [g EXCEPT !.selected_position = None]
                    ELSE IF target = "piece"
                    THEN [g EXCEPT !.selected_position = Some("piece")]
                    ELSE g]
            /\ sent' = IF moves
                       THEN [sent EXCEPT ![p] = send_message(@,
                                Written(MoveMessage(p), g.game, result))]
                       ELSE sent
            /\ unanswered' = IF moves THEN [unanswered EXCEPT ![p] = @ + 1] ELSE unanswered
            \* unimplemented!("Promotion not implemented")
            /\ running' = IF g.winner = None /\ g.ui_state = "Promotion" /\ target = "choice"
                          THEN [running EXCEPT ![p] = FALSE] ELSE running
    /\ UNCHANGED <<arrived, taken, last>>
    /\ UNCHANGED codec_vars

\* the window of peer p is closed: event::run returns and the process ends
window_closed(p) ==
    /\ running[p]
    /\ running' = [running EXCEPT ![p] = FALSE]
    /\ UNCHANGED <<gui, sent, arrived, taken, last, unanswered>>
    /\ UNCHANGED codec_vars

NextNet ==
    \E p \in Peers :
        Deliver(p) \/ update(p) \/ mouse_button_down_event(p) \/ window_closed(p)

\* the codec variables are not used by a session
InitNet ==
    /\ msg = NoMessage /\ frame = NotRun /\ wire = NoText /\ parsed = NotRun
    /\ pc = "session"
    /\ NetInit

SpecNet == InitNet /\ [][NextNet]_vars

-----------------------------------------------------------------------------

(* The codec run on one input: serialize, then parse of what was written; or
   parse of a text a peer sent *)

InitEncode(m) ==
    /\ msg = m /\ frame = NotRun /\ wire = NoText /\ parsed = NotRun /\ pc = "encode"
    /\ NetInit

InitDecode(text) ==
    /\ msg = NoMessage /\ frame = NotRun /\ wire = text /\ parsed = NotRun /\ pc = "decode"
    /\ NetInit

Init ==
    \/ \E b \in SingleBoards : InitEncode(SingleBoardMsg(b))
    \/ \E b \in PatternBoards : InitEncode(PatternBoardMsg(b))
    \/ \E p \in Positions : \E q \in Destinations(p), prom \in Proms, gs \in GameStates :
            InitEncode(MoveMsg(new_empty, p, q, prom, gs))
    \/ \E unit \in ReasonUnits, n \in 0..MaxReasonLen : \E k \in ColonPlaces(n) :
            InitEncode(QuitMsg(Reason(unit, n, k)))
    \/ \E tag \in Tags, n \in 0..MaxFields : \E fs \in FieldSeqs(n) :
            \E text \in Stretched(RawText(tag, fs)) : InitDecode(text)

\* serialize(&msg); a frame goes on to the peer's parse
Serialize ==
    /\ pc = "encode"
    /\ frame' = serialize(msg)
    /\ IF IsOk(frame')
       THEN wire' = frame'.val /\ pc' = "decode"
       ELSE wire' = wire /\ pc' = "done"
    /\ UNCHANGED <<msg, parsed>>
    /\ UNCHANGED net_vars

\* parse(&wire), in a build with and in a build without overflow checks
Parse ==
    /\ pc = "decode"
    /\ \E checks \in BOOLEAN : parsed' = parse(wire, checks)
    /\ pc' = "done"
    /\ UNCHANGED <<msg, frame, wire>>
    /\ UNCHANGED net_vars

Next == Serialize \/ Parse

Spec == Init /\ [][Next]_vars

-----------------------------------------------------------------------------
(* What the claims speak of, stated on the text itself *)

ColonsOf(text) == {i \in 1..Len(text) : text[i] = ":"}
MinOf(S) == CHOOSE i \in S : \A j \in S : i <= j
MaxOf(S) == CHOOSE i \in S : \A j \in S : i >= j

\* the text before the first ':', the whole text when it has none
TagOf(text) ==
    IF ColonsOf(text) = {} THEN text ELSE SubSeq(text, 1, MinOf(ColonsOf(text)) - 1)

\* the text between the first and the second ':'
FirstFieldOf(text) ==
    LET c1 == MinOf(ColonsOf(text))
        c2 == MinOf(ColonsOf(text) \ {c1})
    IN  SubSeq(text, c1 + 1, c2 - 1)

EncodeRan == frame # NotRun
ParseRan == parsed # NotRun

FileLetters == <<"A", "B", "C", "D", "E", "F", "G", "H">>
RankDigits == <<"1", "2", "3", "4", "5", "6", "7", "8">>

PromChar(prom_piece) ==
    CASE prom_piece = None -> "0"
      [] prom_piece = Some("Knight") -> "N"
      [] prom_piece = Some("Bishop") -> "B"
      [] prom_piece = Some("Rook") -> "R"
      [] prom_piece = Some("Queen") -> "Q"

OutcomeCode(game_state) ==
    CASE game_state = "Ongoing" -> <<"0", "-", "0">>
      [] game_state = "WinWhite" -> <<"1", "-", "0">>
      [] game_state = "Draw" -> <<"1", "-", "1">>
      [] game_state = "WinBlack" -> <<"0", "-", "1">>

PieceLetter(piece) ==
    LET i == CHOOSE j \in 1..6 :
                <<"Pawn", "Knight", "Bishop", "Rook", "Queen", "King">>[j] = piece.kind
    IN  IF piece.color = "White" THEN <<"P", "N", "B", "R", "Q", "K">>[i]
        ELSE <<"p", "n", "b", "r", "q", "k">>[i]

IsDigit(c) == c \in {"0", "1", "2", "3", "4", "5", "6", "7", "8", "9"}
DigitValue(c) == CHOOSE d \in 0..9 : DigitChars[d + 1] = c
SquaresOf(c) == IF IsDigit(c) THEN DigitValue(c) ELSE 1

RECURSIVE SquaresUpTo(_, _)
\* the squares the first i characters of a segment stand for
SquaresUpTo(seg, i) == IF i = 0 THEN 0 ELSE SquaresUpTo(seg, i - 1) + SquaresOf(seg[i])

\* segment seg describes rank rank of board, files 0..7 from left to right
SegmentDescribes(seg, board, rank) ==
    /\ SquaresUpTo(seg, Len(seg)) = 8
    /\ \A i \in 1..Len(seg) :
        LET file == SquaresUpTo(seg, i - 1)
        IN  IF IsDigit(seg[i])
            THEN /\ DigitValue(seg[i]) \in 1..8
                 /\ i < Len(seg) => ~IsDigit(seg[i + 1])
                 /\ \A f \in file..(file + DigitValue(seg[i]) - 1) :
                        board[rank * 8 + f + 1] = Empty
            ELSE /\ board[rank * 8 + file + 1].occupied
                 /\ seg[i] = PieceLetter(board[rank * 8 + file + 1].piece)

\* the board field of a Move frame
BoardFieldOf(text) == split(text, ":")[4]

-----------------------------------------------------------------------------
(* The claims *)

\* C1: for every valid Move message m, parse(serialize(m)) returns
\* Message::Move equal to m in every field, the board included: each square
\* holds after decoding the occupant it held before encoding.
C1_MoveRoundTrip ==
    (msg.type = "Move" /\ IsOk(frame) /\ ParseRan) => parsed = Ok(msg)

\* C2: every frame serialize returns, for a Move or for a Quit message, is
\* exactly 128 bytes long, and every byte after its last ':' is '0'.
C2_FrameLengthAndPadding ==
    IsOk(frame) =>
        /\ Len(frame.val) = 128
        /\ ColonsOf(frame.val) # {}
        /\ \A i \in (MaxOf(ColonsOf(frame.val)) + 1)..Len(frame.val) : frame.val[i] = "0"

\* a Move frame of a board with pieces has been written, with padding
C2_Witness ==
    /\ IsOk(frame) /\ msg.type = "Move"
    /\ \E i \in 1..BOARD_SIZE : msg.board[i].occupied
    /\ frame.val[128] = "0"

\* C3: for every reason without ':' of at most 117 bytes (the empty one
\* included), serialize(Quit(reason)) succeeds and parse of the frame returns
\* Quit(reason), the reason unchanged.
C3_QuitRoundTrip ==
    (msg.type = "Quit" /\ ":" \notin Range(msg.str) /\ Len(msg.str) <= 117) =>
        /\ EncodeRan => IsOk(frame)
        /\ pc = "done" => ParseRan
        /\ ParseRan => parsed = Ok(QuitMsg(msg.str))

\* a reason of non-ASCII characters has made the round trip
C3_Witness ==
    /\ msg.type = "Quit" /\ ":" \notin Range(msg.str)
    /\ Len(msg.str) = 116 /\ "xC3" \in Range(msg.str)
    /\ ParseRan /\ parsed = Ok(msg)

\* C4: a Move frame splits on ':' into exactly five fields: the tag
\* 'ChessMOVE'; the 5-character move field (source file letter 'A'+file,
\* source rank digit rank+1, the same for the destination, and the promotion
\* character N, B, R, Q or '0'); the outcome code ('0-0' Ongoing, '1-0'
\* WinWhite, '1-1' Draw, '0-1' WinBlack); the board encoding; and a padding of
\* exactly 128 - 21 - len(board encoding) characters.
C4_MoveFrameLayout ==
    (msg.type = "Move" /\ IsOk(frame)) =>
        LET parts == split(frame.val, ":")
            src == msg.mv[1]
            dst == msg.mv[2]
        IN  /\ Cardinality(ColonsOf(frame.val)) = 4
            /\ Len(parts) = 5
            /\ parts[1] = S_ChessMOVE
            /\ parts[2] = <<FileLetters[src.column + 1], RankDigits[src.row + 1],
                            FileLetters[dst.column + 1], RankDigits[dst.row + 1],
                            PromChar(msg.prom_piece)>>
            /\ parts[3] = OutcomeCode(msg.game_state)
            /\ Len(parts[5]) = 128 - 21 - Len(parts[4])

\* the promotion move A7-A8 to a Queen, won by White, has been written
C4_Witness ==
    /\ msg.type = "Move" /\ IsOk(frame)
    /\ msg.mv = <<Pos(0, 6), Pos(0, 7)>>
    /\ msg.prom_piece = Some("Queen") /\ msg.game_state = "WinWhite"
    /\ SubSeq(frame.val, 1, 20) = <<"C", "h", "e", "s", "s", "M", "O", "V", "E", ":", "A", "7", "A", "8", "Q", ":", "1", "-", "0", ":">>

\* C5: the board encoding is 8 segments joined by '/', the k-th describing
\* rank k-1 with files 0..7 from left to right; in each segment the digits and
\* the letters stand for exactly 8 squares, no two digits are adjacent, each
\* digit is 1..8 and stands for a run of empty squares, each letter is the
\* letter of the piece on its square (upper case White, lower case Black);
\* the empty board is '8/8/8/8/8/8/8/8'.
C5_BoardEncoding ==
    (msg.type = "Move" /\ IsOk(frame)) =>
        LET segs == split(BoardFieldOf(frame.val), "/")
        IN  /\ Len(segs) = 8
            /\ \A k \in 1..8 : SegmentDescribes(segs[k], msg.board, k - 1)
            /\ msg.board = new_empty => BoardFieldOf(frame.val) = S_EmptyBoard

\* a rank with pieces between and after runs of empty squares has been written
C5_Witness ==
    /\ msg.type = "Move" /\ IsOk(frame)
    /\ \E k \in 1..8 :
        LET seg == split(BoardFieldOf(frame.val), "/")[k]
        IN  /\ Len(seg) = 5
            /\ IsDigit(seg[1]) /\ ~IsDigit(seg[2]) /\ IsDigit(seg[3])
            /\ ~IsDigit(seg[4]) /\ IsDigit(seg[5])

\* C6: serialize of a Move message fails exactly when its promotion piece is
\* King or Pawn, then with InvalidPromPiece and no frame; for every other Move
\* message, whatever the board, it succeeds: the padding length never goes
\* negative.
C6_MoveSerializeFailsOnlyOnPromotion ==
    (msg.type = "Move" /\ EncodeRan) =>
        IF msg.prom_piece \in {Some("King"), Some("Pawn")}
        THEN frame = Err("InvalidPromPiece") /\ wire = NoText
        ELSE IsOk(frame) /\ MaxOf(ColonsOf(frame.val)) <= 128

\* a promotion to King has been refused
C6_Witness ==
    /\ msg.type = "Move" /\ msg.prom_piece = Some("King")
    /\ frame = Err("InvalidPromPiece")

\* C7: serialize of Quit(reason) fails with TooLongQuitMsg exactly when the
\* reason is longer than 117 bytes; a reason of exactly 117 bytes gives a
\* 128-byte frame with empty padding; no frame is returned on failure.
C7_QuitTooLong ==
    (msg.type = "Quit" /\ EncodeRan) =>
        /\ Len(msg.str) > 117 <=> frame = Err("TooLongQuitMsg")
        /\ Len(msg.str) <= 117 <=> IsOk(frame)
        /\ Len(msg.str) = 117 => (Len(frame.val) = 128 /\ frame.val[128] = ":")
        /\ ~IsOk(frame) => wire = NoText

\* a reason of exactly 117 bytes has been encoded
C7_Witness ==
    msg.type = "Quit" /\ Len(msg.str) = 117 /\ IsOk(frame)

\* C8: parse of any input longer than 128 bytes returns TooLong, whatever the
\* input holds: a valid frame followed by more bytes, an unknown tag.
C8_TooLongFirst ==
    (ParseRan /\ Len(wire) > 128) => parsed = Err("TooLong")

\* a valid Move frame followed by more bytes has been refused
C8_Witness ==
    /\ ParseRan /\ Len(wire) > 128
    /\ IsOk(parse(SubSeq(wire, 1, 128), TRUE))
    /\ parsed = Err("TooLong")

\* C9: parse of an input of at most 128 bytes whose text before the first ':'
\* (the whole input when it has none) is not exactly 'ChessMOVE' or
\* 'ChessQUIT' returns UnknownMessageType, whatever follows.
C9_UnknownTag ==
    (ParseRan /\ Len(wire) <= 128 /\ TagOf(wire) \notin {S_ChessMOVE, S_ChessQUIT}) =>
        parsed = Err("UnknownMessageType")

\* a frame valid but for the case of its tag has been refused
C9_Witness ==
    /\ ParseRan /\ Len(wire) = 128
    /\ TagOf(wire) = <<"c", "h", "e", "s", "s", "m", "o", "v", "e">>
    /\ IsOk(parse(S_ChessMOVE \o SubSeq(wire, 10, 128), TRUE))
    /\ parsed = Err("UnknownMessageType")

\* C10: for an input of at most 128 bytes with tag ChessQUIT, parse succeeds
\* if and only if exactly two fields follow the tag and otherwise returns
\* WrongAmountOfFields; with tag ChessMOVE, any number of following fields
\* other than four returns WrongAmountOfFields.
C10_FieldCount ==
    (ParseRan /\ Len(wire) <= 128) =>
        LET fields == Cardinality(ColonsOf(wire))
        IN  /\ TagOf(wire) = S_ChessQUIT =>
                IF fields = 2 THEN parsed = Ok(QuitMsg(FirstFieldOf(wire)))
                ELSE parsed = Err("WrongAmountOfFields")
            /\ (TagOf(wire) = S_ChessMOVE /\ fields # 4) =>
                parsed = Err("WrongAmountOfFields")

\* a quit frame whose reason holds a ':' has been refused
C10_Witness ==
    /\ msg.type = "Quit" /\ IsOk(frame) /\ ":" \in Range(msg.str)
    /\ parsed = Err("WrongAmountOfFields")

-----------------------------------------------------------------------------
(* The decoder on the ChessMOVE frames a peer may send: one field is drawn
   from a wide family while the other two are drawn from a few texts, good
   and bad *)

\* the longest move field that is tried
MaxMoveLen == 7
\* the most segments a board field is given
MaxSegments == 9

S_E2E40 == <<"E", "2", "E", "4", "0">>
S_a7a8q == <<"a", "7", "a", "8", "q">>
S_Ongoing == <<"0", "-", "0">>

\* the character U+00E9, two bytes in UTF-8
S_EAcute == <<"xC3", "xA9">>

\* text with its i-th byte replaced by unit
Subst(text, i, unit) == SubSeq(text, 1, i - 1) \o unit \o SubSeq(text, i + 1, Len(text))

\* the characters a field is tried with: letters, digits, and U+00E9
Units == {<<c>> : c \in Range(UpperChars) \cup Range(LowerChars) \cup Range(DigitChars)}
             \cup {S_EAcute}

\* "ChessMOVE:<mv>:<game_state>:<board>:" and the padding of zeros up to 128
\* bytes
MoveFrameText(mv, game_state, board) ==
    LET text == join(<<S_ChessMOVE, mv, game_state, board, <<>> >>, <<":">>)
    IN  IF Len(text) >= FRAME_LEN THEN text
        ELSE text \o repeat(<<"0">>, FRAME_LEN - Len(text))

\* the move field is drawn: a move with one character replaced; a move with
\* one character taken out and another replaced by U+00E9 (5 bytes, 4
\* characters); a move cut short or drawn out
InitMoveField ==
    \E game_state \in {S_Ongoing, <<"w", "e", "i", "r", "d">>}, board \in {S_EmptyBoard, S_SevenRanks, <<"7", "Z">>} :
        \/ \E base \in {S_E2E40, S_a7a8q}, i \in 1..5, unit \in Units :
                InitDecode(MoveFrameText(Subst(base, i, unit), game_state, board))
        \/ \E base \in {S_E2E40, S_a7a8q}, i \in 1..5, j \in 1..4 :
                InitDecode(MoveFrameText(Subst(Subst(base, i, <<>>), j, S_EAcute),
                                         game_state, board))
        \/ \E n \in 0..MaxMoveLen :
                InitDecode(MoveFrameText(SubSeq(repeat(S_E2E40, MaxMoveLen), 1, n),
                                         game_state, board))

\* the outcome field is drawn: a code with one character replaced or taken
\* out, or with one more character
InitOutcomeField ==
    \E mv \in {S_E2E40, S_a7a8q}, board \in {S_EmptyBoard, S_SevenRanks, <<"7", "Z">>} :
        \E code \in {<<"0", "-", "0">>, <<"1", "-", "0">>, <<"0", "-", "1">>, <<"1", "-", "1">>}, i \in 1..4,
           unit \in {<<"0">>, <<"1">>, <<"2">>, <<"-">>, <<" ">>, <<>>} :
            InitDecode(MoveFrameText(mv, Subst(code, i, unit), board))

\* the segments that stand among the "8" segments of a board field
Segments ==
    {<<>>, <<"0">>, <<"4">>, <<"9">>, <<"4", "4">>, <<"8", "8">>, <<"P", "7">>, <<"7", "p">>, <<"8", "P">>, <<"P", "8">>,
     <<"7", "Z">>, <<"Z", "7">>, <<"8", "Z">>, <<"Z", "8">>, <<"Z">>, <<"Z", "9">>, <<"9", "Z">>, <<"7", "xC3", "xA9">>, <<"3", "x", "4">>,
     <<"r", "n", "b", "q", "k", "b", "n", "r">>, <<"R", "N", "B", "Q", "K", "B", "N", "R">>, <<"P", "P", "P", "P", "P", "P", "P", "P", "P">>, <<"8", "8", "8", "8", "8", "8", "8", "8">>, <<"8", "8", "8", "8", "8", "8", "8">>}

\* a board field of n segments: "8" everywhere but for seg at place j
BoardText(n, j, seg) == join([i \in 1..n |-> IF i = j THEN seg ELSE <<"8">>], <<"/">>)

\* the board field is drawn
InitBoardField ==
    \E n \in 1..MaxSegments : \E j \in 1..n, seg \in Segments \cup {<<"8">>} :
        InitDecode(MoveFrameText(S_E2E40, S_Ongoing, BoardText(n, j, seg)))

InitFields == InitMoveField \/ InitOutcomeField \/ InitBoardField

NextDecode == Parse

SpecDecode == InitFields /\ [][NextDecode]_vars

\* the fields of a frame, the tag being field 0
FieldOf(text, i) == split(text, ":")[i + 1]

\* a ChessMOVE frame of at most 128 bytes with four fields after the tag has
\* been parsed
MoveFrameParsed ==
    /\ ParseRan /\ Len(wire) <= FRAME_LEN
    /\ TagOf(wire) = S_ChessMOVE /\ Cardinality(ColonsOf(wire)) = 4

IsSquare(file, rank) ==
    /\ file \in Range(FileLetters) \cup {to_ascii_lowercase(c) : c \in Range(FileLetters)}
    /\ rank \in Range(RankDigits)

\* mv is five characters: two squares and one of 0, N, B, R, Q in either case
WellFormedMove(mv) ==
    LET cs == chars(mv)
    IN  /\ Len(cs) = 5
        /\ IsSquare(cs[1], cs[2]) /\ IsSquare(cs[3], cs[4])
        /\ cs[5] \in {"0", "N", "B", "R", "Q", "n", "b", "r", "q"}

\* C11: a ChessMOVE frame with four fields whose move field is not five
\* characters long, or whose fifth character is not one of 0, N, B, R, Q in
\* either case, or one of whose squares is not a file letter A..H in either
\* case and a rank digit 1..8, makes parse return InvalidMoveFormat, whatever
\* the outcome and board fields hold.
C11_InvalidMoveFormat ==
    (MoveFrameParsed /\ ~WellFormedMove(FieldOf(wire, 1))) =>
        parsed = Err("InvalidMoveFormat")

OutcomeCodes == {<<"0", "-", "0">>, <<"1", "-", "0">>, <<"1", "-", "1">>, <<"0", "-", "1">>}

\* C12: a ChessMOVE frame with four fields and a well-formed move field makes
\* parse return InvalidGameState whenever its outcome field is not exactly one
\* of 0-0, 1-0, 1-1, 0-1, whatever the board field holds; a field that is one
\* of the four is decoded to Ongoing, WinWhite, Draw, WinBlack, the inverse of
\* what the encoder writes.
C12_InvalidGameState ==
    (MoveFrameParsed /\ WellFormedMove(FieldOf(wire, 1))) =>
        LET code == FieldOf(wire, 2)
        IN  IF code \notin OutcomeCodes THEN parsed = Err("InvalidGameState")
            ELSE /\ parsed # Err("InvalidGameState")
                 /\ IsOk(parsed) => OutcomeCode(parsed.val.game_state) = code

\* an outcome field "0-2" before a board field that is too short has been
\* refused as an outcome
C12_Witness ==
    /\ MoveFrameParsed /\ WellFormedMove(FieldOf(wire, 1))
    /\ FieldOf(wire, 2) = <<"0", "-", "2">> /\ FieldOf(wire, 3) = S_SevenRanks
    /\ parsed = Err("InvalidGameState")

RECURSIVE ReadOrder(_)
\* the characters of the segments in the order parse_fen reads them: the
\* segments from first to last, each segment from its last character to its
\* first
ReadOrder(segments) ==
    IF Len(segments) = 0 THEN <<>>
    ELSE reverse(chars(Head(segments))) \o ReadOrder(Tail(segments))

IsPieceLetter(c) == to_ascii_uppercase(c) \in {"P", "N", "B", "R", "Q", "K"}

\* a ChessMOVE frame whose move and outcome fields are good has been parsed:
\* the result is that of parse_fen on the board field
BoardParsed ==
    /\ MoveFrameParsed /\ WellFormedMove(FieldOf(wire, 1))
    /\ FieldOf(wire, 2) \in OutcomeCodes

\* the places of a text read in order where the squares counted so far are
\* more than 64
OverAt(seq) == {j \in 1..Len(seq) : SquaresUpTo(seq, j) > BOARD_SIZE}
\* the places that hold neither a digit nor a piece letter
BadAt(seq) == {j \in 1..Len(seq) : ~IsDigit(seq[j]) /\ ~IsPieceLetter(seq[j])}

\* C13: parse_fen returns a board only when the digits and the letters of the
\* board string add up to exactly 64 squares; a total still below 64 after the
\* last segment, and a total that goes above 64 at some point of the parse,
\* by a digit or by a letter, both end in InvalidFENLength.
C13_BoardLength ==
    BoardParsed =>
        LET seq == ReadOrder(split(FieldOf(wire, 3), "/"))
            total == SquaresUpTo(seq, Len(seq))
        IN  /\ IsOk(parsed) => total = BOARD_SIZE
            /\ (BadAt(seq) = {} /\ total < BOARD_SIZE) => parsed = Err("InvalidFENLength")
            /\ (OverAt(seq) # {} /\ \A j \in BadAt(seq) : j >= MinOf(OverAt(seq))) =>
                    parsed = Err("InvalidFENLength")

\* C14: parse_fen refuses with InvalidFENLength every board string that does
\* not split on '/' into exactly 8 segments, whatever the squares of its
\* segments add up to.
C14_EightSegments ==
    (BoardParsed /\ Len(split(FieldOf(wire, 3), "/")) # BOARD_LEN) =>
        parsed = Err("InvalidFENLength")

C19_OwnFramesAccepted ==
    (IsOk(frame) /\ ParseRan) => (IsOk(parsed) /\ parsed.val.type = msg.type)

\* C20: parse is total on inputs of at most 128 bytes: it returns a Message
\* or a ParseError and never aborts, whatever the move field and the board
\* field hold.
C20_ParseTotal ==
    (ParseRan /\ Len(wire) <= FRAME_LEN) => ~IsPanic(parsed)

-----------------------------------------------------------------------------
(* The claims on the session *)

IsParseError(r) == r.tag \in {"Err", "Panic"}

\* C16: a read_message call made while only a part of a frame has arrived
\* returns an I/O error and not a ParseError, and no byte of the frame is lost
\* by it: the bytes taken from the stream are always whole frames, so that a
\* later call returns exactly the message the peer sent and the frames stay
\* aligned on 128-byte boundaries.
C16_NoByteLost ==
    \A p \in Peers :
        /\ ~IsParseError(last[p])
        /\ taken[p] % FRAME_LEN = 0
        /\ IsOk(last[p]) => last[p].val = sent[Opponent(p)][taken[p] \div FRAME_LEN].message

\* C17: every error read_message returns to update, other than the
\* no-data-yet condition, ends the session of the peer: a decode error does,
\* and so does a hard I/O error such as the end of a closed connection.
C17_ErrorsEndSession ==
    \A p \in Peers :
        (IsParseError(last[p]) \/ (last[p].tag = "IoError" /\ last[p].kind # "WouldBlock"))
            => ~running[p]

\* the move frames peer p has written that its opponent has not read to the end
InFlight(p) ==
    {i \in 1..Len(sent[p]) :
        sent[p][i].message.type = "Move" /\ i * FRAME_LEN > taken[Opponent(p)]}

\* C18: at most one move frame is in flight in each direction: a peer writes a
\* move frame only when the turn is its own colour, and after writing one it
\* writes no more until it has read and applied a move frame of the opponent.
C18_OneMoveInFlight ==
    \A p \in Peers :
        /\ \A i \in 1..Len(sent[p]) :
                sent[p][i].message.type = "Move" => sent[p][i].before.turn = playing_as(p)
        /\ unanswered[p] <= 1
        /\ Cardinality(InFlight(p)) <= 1

====
